---------------------------- MODULE Spec2Model ----------------------------
(***************************************************************************)
(* Path-following kernel of paths.c: path_progress and its three solvers   *)
(* path_endpoint, path_vector and path_circle.                             *)
(*                                                                         *)
(* Numbers.  The C code computes in float.  The model computes in fixed    *)
(* point: a number x is held as the integer nearest to x * Scale, and      *)
(* every arithmetic operation of the code is one operation here, rounded   *)
(* to nearest as IEEE arithmetic is.  Positions are whole metres, so       *)
(* that sums and differences are exact, as they are in float for small     *)
(* integers.  Scale is a multiple of 60, so that k/n is exact for every    *)
(* n up to 6: a lattice point on a lattice segment has an exact progress   *)
(* here, where float has it to 1 ulp (about 1e-7, below the 1e-6           *)
(* thresholds of the code).                                                *)
(***************************************************************************)
EXTENDS Integers, Sequences, FiniteSets, TLC

\* ------------------------------------------------------------ bounds
\* Horizontal coordinates (north, east) range over -1..MaxCoord metres.
MaxCoord == 2

\* ------------------------------------------------------------ float
\* One unit of the fixed-point representation is 1/Scale.
Scale == 3000

\* The float literal 1e-6f is 1/EpsDen.
EpsDen == 1000000

\* n / d rounded to the nearest integer (ties away from zero), d > 0.
RoundDiv(n, d) ==
    IF n >= 0 THEN (n + d \div 2) \div d ELSE -((d \div 2 - n) \div d)

\* a * b in float.
Mul(a, b) == RoundDiv(a * b, Scale)

\* a / b in float.  IEEE gives an infinity or a NaN for b = 0 and does not
\* trap; the model gives 0 there and records every divisor (see divisors).
Div(a, b) == IF b = 0 THEN 0 ELSE RoundDiv(a * Scale, b)

\* x < 1e-6f, on fixed-point x: x / Scale < 1 / EpsDen.
LT_EPS_never(x) == x < 0
LT_EPS(x) == x < (Scale + EpsDen - 1) \div EpsDen

\* x > 1e-6f, on fixed-point x: x / Scale > 1 / EpsDen.
GT_EPS(x) == x > Scale \div EpsDen

\* The largest r with r * r <= n (Newton's iteration from above).
RECURSIVE isqrt_iter(_, _)
isqrt_iter(n, x) ==
    LET y == (x + n \div x) \div 2
    IN  IF y >= x THEN x ELSE isqrt_iter(n, y)

ISqrt(n) == IF n <= 0 THEN 0 ELSE isqrt_iter(n, IF n > 46340 THEN 46340 ELSE n)

\* sqrtf(x): the square root, correctly rounded.
sqrtf(x) ==
    LET n == x * Scale
        r == ISqrt(n)
    IN  IF n - r * r > r THEN r + 1 ELSE r

\* fabs(x)
fabs(x) == IF x < 0 THEN -x ELSE x

\* boundf(val, min, max) of mathmisc.h: val limited to min..max.
boundf(val, min, max) == IF val < min THEN min ELSE IF val > max THEN max ELSE val

\* M_PI_F of pios_math.h: pi as a float (355/113 is pi to 3e-7).
M_PI_F == RoundDiv(355 * Scale, 113)

\* pi/2, the constant atan2f folds the octants with.
M_PI_2_F == RoundDiv(355 * Scale, 226)

\* atan of t in 0..1, by the odd polynomial of degree 9 (Abramowitz and
\* Stegun 4.4.47), evaluated by Horner's rule.
atanf01(t) ==
    LET t2 == Mul(t, t)
        a1 == RoundDiv(9999 * Scale, 10000)
        a3 == -RoundDiv(3303 * Scale, 10000)
        a5 == RoundDiv(1801 * Scale, 10000)
        a7 == -RoundDiv(851 * Scale, 10000)
        a9 == RoundDiv(208 * Scale, 10000)
    IN  Mul(t, a1 + Mul(t2, a3 + Mul(t2, a5 + Mul(t2, a7 + Mul(t2, a9)))))

\* atan2f(y, x): the angle of the point (x, y), in -pi..pi.
atan2f(y, x) ==
    LET ay == fabs(y)
        ax == fabs(x)
        base == IF ax = 0 /\ ay = 0 THEN 0
                ELSE IF ay <= ax THEN atanf01(Div(ay, ax))
                ELSE M_PI_2_F - atanf01(Div(ax, ay))
        half == IF x >= 0 THEN base ELSE M_PI_F - base
    IN  IF y < 0 THEN -half ELSE half

\* ------------------------------------------------------------ paths.c
\* struct path_status, and what a solver leaves behind: the status record it
\* wrote, and the divisors of the divisions it executed, in order.
Vec3(a, b, c) == <<a, b, c>>

SumSq(v) == Mul(v[1], v[1]) + Mul(v[2], v[2]) + Mul(v[3], v[3])

Dot(u, v) == Mul(u[1], v[1]) + Mul(u[2], v[2]) + Mul(u[3], v[3])

\* path_endpoint: fractional_progress of the non-degenerate case.
endpoint_progress_unclamped(dist_diff, dist_path) ==
    Scale - Div(dist_diff, Scale + dist_path)

endpoint_progress_inverted(dist_diff, dist_path) ==
    IF dist_path + Scale > dist_diff
    THEN Div(dist_diff, Scale + dist_path)
    ELSE 0

endpoint_progress(dist_diff, dist_path) ==
    IF dist_path + Scale > dist_diff
    THEN Scale - Div(dist_diff, Scale + dist_path)
    ELSE 0

\* path_endpoint: "we do not correct in this mode".
endpoint_correction_kept(status) == status

endpoint_correction(status) ==
    [status EXCEPT !.correction_direction = Vec3(0, 0, 0)]

path_endpoint(start_point, end_point, cur_point, status, mode3D) ==
    LET s0 == endpoint_correction(status)
        path == Vec3(end_point[1] - start_point[1],
                     end_point[2] - start_point[2],
                     IF mode3D THEN end_point[3] - start_point[3] ELSE 0)
        diff == Vec3(end_point[1] - cur_point[1],
                     end_point[2] - cur_point[2],
                     IF mode3D THEN end_point[3] - cur_point[3] ELSE 0)
        dist_diff == sqrtf(SumSq(diff))
        dist_path == sqrtf(SumSq(path))
    IN  IF LT_EPS(dist_diff)
        THEN [status |-> [s0 EXCEPT !.fractional_progress = Scale,
                                    !.error = 0,
                                    !.path_direction = Vec3(0, 0, Scale)],
              divisors |-> << >>]
        ELSE [status |-> [s0 EXCEPT
                  !.fractional_progress = endpoint_progress(dist_diff, dist_path),
                  !.error = dist_diff,
                  !.path_direction = Vec3(Div(diff[1], dist_diff),
                                          Div(diff[2], dist_diff),
                                          Div(diff[3], dist_diff))],
              divisors |-> (IF dist_path + Scale > dist_diff
                            THEN <<Scale + dist_path>> ELSE << >>)
                           \o <<dist_diff, dist_diff, dist_diff>>]

path_vector(start_point, end_point, cur_point, status, mode3D) ==
    LET path == Vec3(end_point[1] - start_point[1],
                     end_point[2] - start_point[2],
                     IF mode3D THEN end_point[3] - start_point[3] ELSE 0)
        diff == Vec3(cur_point[1] - start_point[1],
                     cur_point[2] - start_point[2],
                     IF mode3D THEN cur_point[3] - start_point[3] ELSE 0)
        dot == Dot(path, diff)
        dist_path == sqrtf(SumSq(path))
        \* dist_path * dist_path: the square of a correctly rounded root is
        \* its radicand to 2 ulp; the model takes the radicand.
        dist_path_sq == SumSq(path)
        long == GT_EPS(dist_path)
        s1 == IF long
              THEN [status EXCEPT
                       !.path_direction = Vec3(Div(path[1], dist_path),
                                               Div(path[2], dist_path),
                                               Div(path[3], dist_path)),
                       !.fractional_progress = Div(dot, dist_path_sq)]
              ELSE [status EXCEPT
                       !.path_direction = Vec3(0, 0, 0),
                       !.fractional_progress = Scale]
        progress == boundf(s1.fractional_progress, 0, Scale)
        track_point == Vec3(Mul(progress, path[1]) + start_point[1],
                            Mul(progress, path[2]) + start_point[2],
                            Mul(progress, path[3]) + start_point[3])
        correction == Vec3(track_point[1] - cur_point[1],
                           track_point[2] - cur_point[2],
                           track_point[3] - cur_point[3])
        error == sqrtf(SumSq(correction))
    IN  [status |-> [s1 EXCEPT
             !.fractional_progress = progress,
             !.error = error,
             !.correction_direction =
                 IF GT_EPS(error)
                 THEN Vec3(Div(correction[1], error),
                           Div(correction[2], error),
                           Div(correction[3], error))
                 ELSE Vec3(0, 0, Scale)],
         divisors |-> (IF long
                       THEN <<dist_path, dist_path, dist_path, dist_path_sq>>
                       ELSE << >>)
                      \o (IF GT_EPS(error) THEN <<error, error, error>> ELSE << >>)]

\* path_circle: the unit tangent at the current bearing, for the winding.
circle_normal_swapped(diff_north, diff_east, cradius, clockwise) ==
    IF clockwise
    THEN <<Div(diff_east, cradius), Div(-diff_north, cradius)>>
    ELSE <<Div(-diff_east, cradius), Div(diff_north, cradius)>>

circle_normal(diff_north, diff_east, cradius, clockwise) ==
    IF clockwise
    THEN <<Div(-diff_east, cradius), Div(diff_north, cradius)>>
    ELSE <<Div(diff_east, cradius), Div(-diff_north, cradius)>>

\* The rounding error ulp of the float quotient (a_diff - a_radius + pi) /
\* 2 pi, in units of the model: float rounds below the model's resolution,
\* and at the wrap of the progress scale the side the quotient falls on is
\* that error's sign.  It is fixed for given points, and unknown to the
\* model, which takes it as one more argument of the solver.
Rounding == {-1, 0, 1}

\* path_circle: the angular progress, from the two atan2f results.
circle_progress_no_wrap(a_diff0, a_radius0, clockwise, ulp) ==
    LET a_diff == IF a_diff0 < 0 THEN a_diff0 + 2 * M_PI_F ELSE a_diff0
        a_radius == IF a_radius0 < 0 THEN a_radius0 + 2 * M_PI_F ELSE a_radius0
        p0 == Div(a_diff - a_radius + M_PI_F, 2 * M_PI_F) + ulp
        p1 == IF p0 < 0 THEN p0 + Scale ELSE p0
    IN  IF clockwise THEN Scale - p1 ELSE p1

circle_progress(a_diff0, a_radius0, clockwise, ulp) ==
    LET a_diff == IF a_diff0 < 0 THEN a_diff0 + 2 * M_PI_F ELSE a_diff0
        a_radius == IF a_radius0 < 0 THEN a_radius0 + 2 * M_PI_F ELSE a_radius0
        p0 == Div(a_diff - a_radius + M_PI_F, 2 * M_PI_F) + ulp
        p1 == IF p0 < 0 THEN p0 + Scale
              ELSE IF p0 >= Scale THEN p0 - Scale
              ELSE p0
    IN  IF clockwise THEN Scale - p1 ELSE p1

\* path_circle: the radial correction, from the signed error.
circle_correction_flipped(error, diff_north, diff_east, cradius) ==
    Vec3((IF error > 0 THEN -1 ELSE 1) * Div(diff_north, cradius),
         (IF error > 0 THEN -1 ELSE 1) * Div(diff_east, cradius),
         0)

circle_correction(error, diff_north, diff_east, cradius) ==
    Vec3((IF error > 0 THEN 1 ELSE -1) * Div(diff_north, cradius),
         (IF error > 0 THEN 1 ELSE -1) * Div(diff_east, cradius),
         0)

path_circle(start_point, end_point, cur_point, status, clockwise, ulp) ==
    LET radius_north == end_point[1] - start_point[1]
        radius_east == end_point[2] - start_point[2]
        diff_north == cur_point[1] - end_point[1]
        diff_east == cur_point[2] - end_point[2]
        radius == sqrtf(Mul(radius_north, radius_north) + Mul(radius_east, radius_east))
        cradius == sqrtf(Mul(diff_north, diff_north) + Mul(diff_east, diff_east))
        normal == circle_normal(diff_north, diff_east, cradius, clockwise)
        a_diff == atan2f(diff_north, diff_east)
        a_radius == atan2f(radius_north, radius_east)
        error == radius - cradius
    IN  IF LT_EPS(cradius)
        THEN [status |-> [status EXCEPT
                  !.fractional_progress = Scale,
                  !.error = radius,
                  !.correction_direction = Vec3(0, Scale, 0),
                  !.path_direction = Vec3(Scale, 0, 0)],
              divisors |-> << >>]
        ELSE [status |-> [status EXCEPT
                  !.fractional_progress = circle_progress(a_diff, a_radius, clockwise, ulp),
                  !.correction_direction =
                      circle_correction(error, diff_north, diff_east, cradius),
                  !.path_direction = Vec3(normal[1], normal[2], 0),
                  !.error = fabs(error)],
              divisors |-> <<cradius, cradius, 2 * M_PI_F, cradius, cradius>>]

\* The path modes of pathdesired.h, and two values of the uint8_t mode
\* argument that are none of them.
FlyModes ==
    {"FLYVECTOR", "FLYCIRCLERIGHT", "FLYCIRCLELEFT", "FLYENDPOINT"}

DriveModes ==
    {"DRIVEVECTOR", "DRIVECIRCLERIGHT", "DRIVECIRCLELEFT", "DRIVEENDPOINT"}

NamedModes == FlyModes \cup DriveModes

UnknownModes == {"UNKNOWN_8", "UNKNOWN_255"}

Modes == NamedModes \cup UnknownModes

\* One solver call of the switch: the solver's result, and its name and flag.
Solve(name, flag, result) ==
    [status |-> result.status,
     divisors |-> result.divisors,
     calls |-> <<(<<name, flag>>)>>]

path_progress_default_3D(start_point, end_point, cur_point, status, m, ulp) ==
    CASE m = "FLYVECTOR" ->
           Solve("path_vector", TRUE,
                 path_vector(start_point, end_point, cur_point, status, TRUE))
      [] m = "DRIVEVECTOR" ->
           Solve("path_vector", FALSE,
                 path_vector(start_point, end_point, cur_point, status, FALSE))
      [] m \in {"FLYCIRCLERIGHT", "DRIVECIRCLERIGHT"} ->
           Solve("path_circle", TRUE,
                 path_circle(start_point, end_point, cur_point, status, TRUE, ulp))
      [] m \in {"FLYCIRCLELEFT", "DRIVECIRCLELEFT"} ->
           Solve("path_circle", FALSE,
                 path_circle(start_point, end_point, cur_point, status, FALSE, ulp))
      [] m = "DRIVEENDPOINT" ->
           Solve("path_endpoint", FALSE,
                 path_endpoint(start_point, end_point, cur_point, status, FALSE))
      [] OTHER ->
           Solve("path_endpoint", TRUE,
                 path_endpoint(start_point, end_point, cur_point, status, TRUE))

path_progress(start_point, end_point, cur_point, status, m, ulp) ==
    CASE m = "FLYVECTOR" ->
           Solve("path_vector", TRUE,
                 path_vector(start_point, end_point, cur_point, status, TRUE))
      [] m = "DRIVEVECTOR" ->
           Solve("path_vector", FALSE,
                 path_vector(start_point, end_point, cur_point, status, FALSE))
      [] m \in {"FLYCIRCLERIGHT", "DRIVECIRCLERIGHT"} ->
           Solve("path_circle", TRUE,
                 path_circle(start_point, end_point, cur_point, status, TRUE, ulp))
      [] m \in {"FLYCIRCLELEFT", "DRIVECIRCLELEFT"} ->
           Solve("path_circle", FALSE,
                 path_circle(start_point, end_point, cur_point, status, FALSE, ulp))
      [] m = "FLYENDPOINT" ->
           Solve("path_endpoint", TRUE,
                 path_endpoint(start_point, end_point, cur_point, status, TRUE))
      [] OTHER ->
           \* case PATHDESIRED_MODE_DRIVEENDPOINT: default:
           Solve("path_endpoint", FALSE,
                 path_endpoint(start_point, end_point, cur_point, status, FALSE))

\* ------------------------------------------------------------ state
\* The caller's three points and mode, its status record, and what the last
\* call of path_progress executed; last is the caller's note of the tick
\* before: the point the vehicle was at and the progress reported there.
VARIABLES start, end, cur, mode, rounding, status, pc, divisors, calls, last

vars ==
    <<start, end, cur, mode, rounding, status, pc, divisors, calls, last>>

Metres(k) == k * Scale

Coord == {Metres(k) : k \in -1..MaxCoord}

Alt == {Metres(0), Metres(1)}

Points == Coord \X Coord \X Alt

\* The end point (the centre, for the circle modes).
EndPoints == {Vec3(0, 0, 0), Vec3(Metres(1), Metres(1), Metres(1))}

CircleModes ==
    {"FLYCIRCLERIGHT", "DRIVECIRCLERIGHT", "FLYCIRCLELEFT", "DRIVECIRCLELEFT"}

\* The caller's status record before the first call: never initialised, it
\* holds values that no solver writes.
UninitStatus ==
    [fractional_progress |-> 7 * Scale, error |-> -Scale,
     path_direction |-> Vec3(Scale, Scale, Scale),
     correction_direction |-> Vec3(-Scale, 5, 2 * Scale)]

\* What a status record may hold before a call: the uninitialised record,
\* or a cleared one.
PriorStatus ==
    {UninitStatus,
     [fractional_progress |-> 0, error |-> 0,
      path_direction |-> Vec3(0, 0, 0), correction_direction |-> Vec3(0, 0, 0)]}

Init ==
    /\ start \in Points
    /\ end \in EndPoints
    /\ cur \in Points
    /\ mode \in Modes
    /\ rounding \in (IF mode \in CircleModes THEN Rounding ELSE {0})
    /\ status = UninitStatus
    /\ pc = "idle"
    /\ divisors = << >>
    /\ calls = << >>
    /\ last = << >>

\* What path_progress does on the caller's points and mode, when the
\* status record holds prior.
Result(prior) == path_progress(start, end, cur, prior, mode, rounding)

\* The caller calls path_progress on its points, mode and status record.
Call ==
    /\ status' = Result(status).status
    /\ divisors' = Result(status).divisors
    /\ calls' = Result(status).calls
    /\ pc' = "done"
    /\ UNCHANGED <<start, end, cur, mode, rounding, last>>

\* max(|north|, |east|) of the horizontal offset from p to q.
Cheb(p, q) ==
    LET dn == fabs(q[1] - p[1])
        de == fabs(q[2] - p[2])
    IN  IF dn > de THEN dn ELSE de

\* The lattice points one metre from cur on the square ring around the
\* centre that cur is on, in the direction the status reports.
RingSteps ==
    {q \in {Vec3(cur[1] + dn, cur[2] + de, cur[3]) :
                dn \in {-Scale, 0, Scale}, de \in {-Scale, 0, Scale}} :
        /\ q \in Points
        /\ Cheb(end, q) = Cheb(end, cur)
        /\ Cheb(cur, q) = Metres(1)
        /\ (q[1] - cur[1]) * status.path_direction[1]
             + (q[2] - cur[2]) * status.path_direction[2] > 0}

\* One control tick in a circle mode: the vehicle has moved along the
\* reported path_direction, and the caller calls path_progress again.
Follow ==
    /\ pc = "done"
    /\ calls[1][1] = "path_circle"
    /\ Cheb(end, cur) > 0
    /\ \E q \in RingSteps, e \in Rounding :
          LET r == path_progress(start, end, q, status, mode, e)
          IN  /\ cur' = q
              /\ rounding' = e
              /\ status' = r.status
              /\ divisors' = r.divisors
              /\ calls' = r.calls
    /\ last' = <<cur, status.fractional_progress>>
    /\ UNCHANGED <<start, end, mode, pc>>

\* The calls of path_progress on every combination of the bounded inputs.
Next == Call

Spec == Init /\ [][Next]_vars

\* A vehicle circling at the height of the centre: the circle modes, with
\* the vehicle following the reported direction from tick to tick.
InitSweep ==
    /\ Init
    /\ mode \in CircleModes
    /\ start[3] = end[3]
    /\ cur[3] = end[3]

NextSweep == Call \/ Follow

SpecSweep == InitSweep /\ [][NextSweep]_vars

\* ------------------------------------------------------------ geometry
\* Exact predicates on the lattice points, for stating the claims.
Done == pc = "done"

EndpointModes == {"FLYENDPOINT", "DRIVEENDPOINT"} \cup UnknownModes

VectorModes == {"FLYVECTOR", "DRIVEVECTOR"}

ClockwiseModes == {"FLYCIRCLERIGHT", "DRIVECIRCLERIGHT"}

Sub(p, q) == Vec3(p[1] - q[1], p[2] - q[2], p[3] - q[3])

\* The horizontal cross product, positive when v is counter-clockwise of u
\* seen from above (north up, east right).
CrossH(u, v) == u[2] * v[1] - u[1] * v[2]

DotH(u, v) == u[1] * v[1] + u[2] * v[2]

NormSqH(u) == DotH(u, u)

\* p is on the ray from the centre through the start point.
OnStartRay(p) ==
    /\ CrossH(Sub(p, end), Sub(start, end)) = 0
    /\ DotH(Sub(p, end), Sub(start, end)) > 0

\* The circle has a radius: the start point is not above or below the centre.
HasRadius == NormSqH(Sub(start, end)) > 0

\* ------------------------------------------------------------ claims

\* C1: for every mode value that is none of the eight named modes,
\* path_progress calls path_endpoint without the vertical axis and leaves
\* the status that PATHDESIRED_MODE_DRIVEENDPOINT leaves on the same points;
\* every mode value ends in exactly one solver call.
C1_UnknownModeIsDriveEndpoint ==
    Done =>
        /\ Len(calls) = 1
        /\ mode \in UnknownModes =>
             /\ calls = <<(<<"path_endpoint", FALSE>>)>>
             /\ status = path_progress(start, end, cur, UninitStatus,
                                       "DRIVEENDPOINT", rounding).status

\* An unknown mode was served, on points whose heights differ, short of the
\* end point.
C1_Witness ==
    /\ Done
    /\ mode = "UNKNOWN_255"
    /\ cur[3] # end[3]
    /\ start[3] # end[3]
    /\ status.fractional_progress \in 1..(Scale - 1)

\* C2: the status after a call is a function of start, end, current and
\* mode: whatever the record held before the call, the call leaves the same
\* four fields, and a second call on the same inputs changes nothing.
C2_StatusFunctionOfInputs ==
    Done =>
        \A prior \in PriorStatus \cup {status} :
            path_progress(start, end, cur, prior, mode, rounding).status = status

\* A call has replaced every field of the uninitialised record.
C2_Witness ==
    /\ Done
    /\ status.fractional_progress # UninitStatus.fractional_progress
    /\ status.error # UninitStatus.error
    /\ status.path_direction # UninitStatus.path_direction
    /\ status.correction_direction # UninitStatus.correction_direction
    /\ mode \in EndpointModes

\* The vertical axis takes part in the mode's distances.
Mode3D == mode \in {"FLYVECTOR", "FLYENDPOINT"}

Flat(v) == Vec3(v[1], v[2], IF Mode3D THEN v[3] ELSE 0)

\* The squared length of v, exactly.
NormSq(v) == v[1] * v[1] + v[2] * v[2] + v[3] * v[3]

\* C3: after any call, in every mode and on every input, the degenerate ones
\* included, 0 <= fractional_progress <= 1; in the vector modes the track
\* point start + fractional_progress * path is therefore between start and
\* end on every axis.
C3_ProgressInUnitInterval ==
    Done =>
        /\ status.fractional_progress >= 0
        /\ status.fractional_progress <= Scale
        /\ mode \in VectorModes =>
             \A i \in 1..3 :
                LET path == Flat(Sub(end, start))
                    track == start[i] + Mul(status.fractional_progress, path[i])
                IN  \/ start[i] <= track /\ track <= start[i] + path[i]
                    \/ start[i] + path[i] <= track /\ track <= start[i]

\* The vector solver has limited a progress beyond the end of a segment of
\* positive length.
C3_Witness ==
    /\ Done
    /\ mode = "FLYVECTOR"
    /\ NormSq(Sub(end, start)) > 0
    /\ Dot(Sub(end, start), Sub(cur, start)) > SumSq(Sub(end, start))
    /\ status.fractional_progress = Scale

\* path_vector's view of the current point: path and diff over the axes of
\* the mode (the third components are 0 without mode3D), diff parallel to
\* path, and the projection dot between 0 and the squared length of path.
OnSegment ==
    LET path == Flat(Sub(end, start))
        diff == Flat(Sub(cur, start))
        dot == path[1] * diff[1] + path[2] * diff[2] + path[3] * diff[3]
    IN  /\ path[2] * diff[3] = path[3] * diff[2]
        /\ path[3] * diff[1] = path[1] * diff[3]
        /\ path[1] * diff[2] = path[2] * diff[1]
        /\ dot >= 0
        /\ dot <= NormSq(path)

\* C4: in the vector modes, with start and end apart (dist_path above
\* 1e-6), a current point on the straight segment from start to end has
\* error 0 (to 1e-6).
C4_OnSegmentNoError ==
    (/\ Done
     /\ mode \in VectorModes
     /\ GT_EPS(sqrtf(SumSq(Flat(Sub(end, start)))))
     /\ OnSegment)
        => ~GT_EPS(status.error)

\* C5: in the drive modes and for the unknown modes, the status does not
\* depend on the vertical components of start, end and current.
C5_DriveIgnoresVertical ==
    (Done /\ mode \in DriveModes \cup UnknownModes) =>
        \A zs \in Alt, ze \in Alt, zc \in Alt :
            path_progress(Vec3(start[1], start[2], zs),
                          Vec3(end[1], end[2], ze),
                          Vec3(cur[1], cur[2], zc),
                          status, mode, rounding).status = status

\* The circle solver ran on a current point that is not the centre.
Circling ==
    /\ Done
    /\ mode \in CircleModes
    /\ NormSqH(Sub(cur, end)) > 0

\* C6 as claimed: for the circle solver with radius > 0, a current point on
\* the ray from the centre through the start point has fractional_progress
\* 0, clockwise and counter-clockwise.
C6_ZeroAtStartRadius ==
    (Circling /\ HasRadius /\ OnStartRay(cur))
        => status.fractional_progress = 0

\* C6 as amended: there, fractional_progress is at the wrap of the scale.
\* With the quotient exact it is 0 counter-clockwise and 1 clockwise (the
\* mirror 1 - 0); with the quotient rounded it is within that rounding of
\* 0 or of 1, in either winding.
C6_WrapAtStartRadius ==
    (Circling /\ HasRadius /\ OnStartRay(cur)) =>
        /\ \/ status.fractional_progress <= 1
           \/ status.fractional_progress >= Scale - 1
        /\ rounding = 0 =>
             status.fractional_progress =
                 (IF mode \in ClockwiseModes THEN Scale ELSE 0)

\* A clockwise call on the start ray, beyond the start point, reports 1.
C6_Witness ==
    /\ Circling
    /\ HasRadius
    /\ OnStartRay(cur)
    /\ mode \in ClockwiseModes
    /\ NormSqH(Sub(cur, end)) > NormSqH(Sub(start, end))
    /\ rounding = 0
    /\ status.fractional_progress = Scale

\* The vehicle has moved one step around the centre since the tick before,
\* on a circle with a radius.
Swept ==
    /\ Circling
    /\ HasRadius
    /\ last # << >>

\* The start ray is strictly inside the sector swept from offset a to
\* offset b in the commanded winding.
RayInside(a, b) ==
    LET s == Sub(start, end)
    IN  IF mode \in ClockwiseModes
        THEN CrossH(a, s) < 0 /\ CrossH(s, b) < 0
        ELSE CrossH(a, s) > 0 /\ CrossH(s, b) > 0

\* C7 as claimed: for the circle solver with radius > 0, as current moves
\* step by step around the centre along the reported path_direction,
\* fractional_progress decreases only on the step that crosses or reaches
\* the start radius, where it wraps back to 0; on every other step it does
\* not decrease; clockwise and counter-clockwise.
C7_WrapBackToZero ==
    Swept =>
        LET a == Sub(last[1], end)
            b == Sub(cur, end)
            wrap == RayInside(a, b) \/ OnStartRay(cur)
        IN  /\ wrap <=> status.fractional_progress < last[2]
            /\ OnStartRay(cur) => status.fractional_progress = 0

\* C7 as amended: each step turns in the commanded winding, and
\* fractional_progress increases on every step except one per revolution,
\* at the start radius: the step that crosses the start ray, or, when a
\* position is on the start ray, either the step that reaches it (the
\* progress there is within rounding of 0) or the step that leaves it (the
\* progress there is within rounding of 1), never both.
C7_SweepMonotone ==
    Swept =>
        LET a == Sub(last[1], end)
            b == Sub(cur, end)
            before == last[2]
            after == status.fractional_progress
        IN  /\ IF mode \in ClockwiseModes
               THEN CrossH(a, b) < 0
               ELSE CrossH(a, b) > 0
            /\ RayInside(a, b) => after < before
            /\ OnStartRay(cur) => (after < before <=> after <= 1)
            /\ OnStartRay(last[1]) =>
                 (after < before <=> before >= Scale - 1)
            /\ ~(RayInside(a, b) \/ OnStartRay(cur) \/ OnStartRay(last[1]))
                 => after > before

\* A clockwise step has left the start ray, where the progress was 1, and
\* the progress has wrapped.
C7_Witness ==
    /\ Swept
    /\ mode \in ClockwiseModes
    /\ OnStartRay(last[1])
    /\ last[2] = Scale
    /\ status.fractional_progress < last[2]
    /\ status.fractional_progress > 0

\* C8: for the circle solver with current not at the centre, error is
\* |radius - cradius| and not negative, it is 0 on the circle of the
\* commanded radius, and correction_direction is the horizontal unit radial
\* vector, away from the centre inside the circle and towards it outside,
\* with vertical component 0.
C8_RadialCorrection ==
    Circling =>
        LET diff == Sub(cur, end)
            radius == sqrtf(Mul(end[1] - start[1], end[1] - start[1])
                            + Mul(end[2] - start[2], end[2] - start[2]))
            cradius == sqrtf(Mul(diff[1], diff[1]) + Mul(diff[2], diff[2]))
            c == status.correction_direction
            outward == Vec3(Div(diff[1], cradius), Div(diff[2], cradius), 0)
            inward == Vec3(-outward[1], -outward[2], 0)
        IN  /\ status.error = fabs(radius - cradius)
            /\ status.error >= 0
            /\ NormSqH(diff) = NormSqH(Sub(start, end)) => status.error = 0
            /\ c[3] = 0
            /\ fabs(SumSq(c) - Scale) <= 2
            /\ c \in {outward, inward}
            /\ NormSqH(diff) < NormSqH(Sub(start, end)) =>
                 c = outward /\ DotH(c, diff) > 0
            /\ NormSqH(diff) > NormSqH(Sub(start, end)) =>
                 c = inward /\ DotH(c, diff) < 0

\* The vehicle is inside the commanded circle, off the axes of the centre.
C8_Witness ==
    /\ Circling
    /\ NormSqH(Sub(cur, end)) < NormSqH(Sub(start, end))
    /\ cur[1] # end[1]
    /\ cur[2] # end[2]
    /\ status.error > 0
    /\ DotH(status.correction_direction, Sub(cur, end)) > 0

\* C9: for the endpoint solver, with either vertical flag: a current point
\* that is no farther from end (over the axes of the flag) has no smaller
\* fractional_progress; fractional_progress is never negative; at current =
\* end it is 1 and error is 0; error is the distance from current to end.
C9_EndpointMonotone ==
    (Done /\ mode \in EndpointModes) =>
        /\ status.fractional_progress >= 0
        /\ cur = end => status.fractional_progress = Scale /\ status.error = 0
        /\ status.error = sqrtf(SumSq(Flat(Sub(end, cur))))
        /\ \A c2 \in Points :
              NormSq(Flat(Sub(end, c2))) <= NormSq(Flat(Sub(end, cur))) =>
                  path_progress(start, end, c2, status, mode, rounding)
                      .status.fractional_progress >= status.fractional_progress

\* The vehicle is on its way: short of the end point, with a point of the
\* lattice nearer to it where the progress is larger.
C9_Witness ==
    /\ Done
    /\ mode = "FLYENDPOINT"
    /\ status.fractional_progress \in 1..(Scale - 1)
    /\ \E c2 \in Points :
          /\ NormSq(Sub(end, c2)) < NormSq(Sub(end, cur))
          /\ c2 # end
          /\ path_progress(start, end, c2, status, mode, rounding)
                 .status.fractional_progress > status.fractional_progress

\* C10: no call divides by zero: every divisor of a division that was
\* executed is non-zero, on the degenerate inputs too.
C10_NoDivisionByZero ==
    Done => \A i \in DOMAIN divisors : divisors[i] # 0

\* The vector solver ran on three coincident points: a zero-length path
\* and a zero error, and no division was executed.
C10_Witness ==
    /\ Done
    /\ mode = "FLYVECTOR"
    /\ start = end
    /\ cur = end
    /\ divisors = << >>
    /\ status.fractional_progress = Scale

=============================================================================
